---- MODULE Spec2Model ----
(***************************************************************************)
(* The serverless handlers of the SFTP-connector examples:                 *)
(*   retrieve-dynamic/event_listener.py  status reconciliation, Strategy A *)
(*   retrieve-static/event_listener.py   status reconciliation, Strategy B *)
(*   retrieve/index.py, retrieve-dynamic/index.py, send/index.py           *)
(* An invocation of a handler runs in a slot; its steps are its calls to   *)
(* the external services (status store, connector), which is where other   *)
(* invocations interleave.  The status store is a table keyed by batch_id  *)
(* (update_item is called with Key = {batch_id}), the connector's answers  *)
(* and the failures of external calls are inputs of the steps.  Each Lambda *)
(* function is deployed on its own, with its own environment.              *)
(***************************************************************************)
EXTENDS Integers, Sequences, FiniteSets, TLC

\* ------------------------------------------------------------------ bounds
\* Records in the status store.
NumRecords == 2
\* Longest FileTransferResults list the connector returns.
MaxFiles == 2
\* Clock ticks after the start of the behaviour.
MaxTicks == 1
\* Entries of the remote directory the lister sees.
MaxEntries == 2

\* ---------------------------------------------------------------- values
\* An optional attribute: <<>> when absent, <<v>> when present.
None == <<>>
Some(v) == <<v>>

BatchIds == 1..NumRecords

Terminal == {"COMPLETED", "PARTIALLY_FAILED", "FAILED"}
Pending == {"TRANSFER_STARTED", "DISCOVERY_COMPLETED"}

\* One entry of FileTransferResults: its StatusCode and, when the entry
\* carries Failure.Message, that message.  The connector reports a file as
\* QUEUED or IN_PROGRESS before it reports it COMPLETED or FAILED; the code
\* tells neither from the other, and IN_PROGRESS stands for both.
FileResults ==
    { [StatusCode |-> "COMPLETED", Message |-> None],
      [StatusCode |-> "FAILED", Message |-> Some("E")],
      [StatusCode |-> "IN_PROGRESS", Message |-> None] }

RECURSIVE SeqsUpTo(_, _)
SeqsUpTo(S, n) ==
    IF n = 0 THEN { <<>> }
    ELSE LET shorter == SeqsUpTo(S, n - 1)
         IN  shorter \cup { Append(s, x) : s \in { t \in shorter : Len(t) = n - 1 }, x \in S }

\* The answers list_file_transfer_results may give.
ResultLists == SeqsUpTo(FileResults, MaxFiles)

RECURSIVE Filter(_, _)
Filter(s, code) ==
    IF s = <<>> THEN <<>>
    ELSE IF Head(s).StatusCode = code
         THEN <<Head(s)>> \o Filter(Tail(s), code)
         ELSE Filter(Tail(s), code)

\* ------------------------------------------- Strategy A, the pure part
successful_files(file_results) == Filter(file_results, "COMPLETED")
failed_files(file_results) == Filter(file_results, "FAILED")

\* A classification that differs from new_status in one case: zero results
\* count as a failure.  C6 must tell it from the code's.
NewStatusEmptyFails(file_results) ==
    IF Len(failed_files(file_results)) = 0 /\ Len(successful_files(file_results)) > 0
    THEN "COMPLETED"
    ELSE IF Len(failed_files(file_results)) > 0
         THEN IF Len(successful_files(file_results)) > 0
              THEN "PARTIALLY_FAILED"
              ELSE "FAILED"
         ELSE IF Len(file_results) = 0 THEN "FAILED" ELSE "SKIP"

\* new_status, or "SKIP" for the `continue` of the still-in-progress branch.
NewStatus(file_results) ==
    IF Len(failed_files(file_results)) = 0 /\ Len(successful_files(file_results)) > 0
    THEN "COMPLETED"
    ELSE IF Len(failed_files(file_results)) > 0
         THEN IF Len(successful_files(file_results)) > 0
              THEN "PARTIALLY_FAILED"
              ELSE "FAILED"
         ELSE "SKIP"

ErrorMessage(f) == IF f.Message = None THEN "Unknown error" ELSE f.Message[1]

ErrorMessages(file_results) ==
    [i \in 1..Len(failed_files(file_results)) |-> ErrorMessage(failed_files(file_results)[i])]

\* An update: for each attribute, <<v>> when the SET expression assigns it.
NoUpdate ==
    [status |-> None, updated_at |-> None, completed_at |-> None,
     files_successful |-> None, files_failed |-> None, files_total |-> None,
     error_messages |-> None]

UpdateDataA(file_results, t) ==
    [status |-> Some(NewStatus(file_results)),
     updated_at |-> Some(t),
     completed_at |-> Some(t),
     files_successful |-> Some(Len(successful_files(file_results))),
     files_failed |-> Some(Len(failed_files(file_results))),
     files_total |-> Some(Len(file_results)),
     error_messages |-> IF Len(failed_files(file_results)) > 0
                        THEN Some(ErrorMessages(file_results))
                        ELSE None]

\* An update that accumulates the counts (ADD) where the code's replaces
\* them (SET).  C5 must tell it from the code's.
UpdateItemAdd(item, update_data) ==
    [a \in DOMAIN item |->
        IF a \in DOMAIN update_data /\ update_data[a] # None
        THEN IF a \in {"files_successful", "files_failed", "files_total"}
             THEN Some((IF item[a] = None THEN 0 ELSE item[a][1]) + update_data[a][1])
             ELSE update_data[a]
        ELSE item[a]]

\* update_item with a SET expression: the named attributes are replaced.
UpdateItem(item, update_data) ==
    [a \in DOMAIN item |->
        IF a \in DOMAIN update_data /\ update_data[a] # None
        THEN update_data[a] ELSE item[a]]

\* Strategy B: the elapsed-time threshold of line 71.
TimeThreshold == 120

\* update_data of handle_status_check, lines 72-80.
UpdateDataB(item, t) ==
    [status |-> Some("COMPLETED"),
     updated_at |-> Some(t),
     completed_at |-> Some(t),
     files_successful |-> Some(IF item.files_count = None THEN 0 ELSE item.files_count[1]),
     files_failed |-> Some(0),
     files_total |-> None,
     error_messages |-> None]

\* ----------------------------------------------------------------- state
VARIABLES
    function,   \* the Lambda function deployed: "<example>/<module>"
    env,        \* its environment: the variables that are set
    table,      \* the status store: batch_id -> item (<<>> when none is configured)
    now,        \* the clock datetime.utcnow() / datetime.now() reads
    inv         \* slot -> the invocation running in it

vars == <<function, env, table, now, inv>>

\* Omitted attributes of an item are None.  started_at is written by the
\* producer of the record: [iso |-> TRUE, t |-> t] is a well-formed ISO text
\* of time t, [iso |-> FALSE, ...] a text fromisoformat rejects.
Item(status, transfer_id, connector_id, started_at, files_count) ==
    [status |-> Some(status), transfer_id |-> transfer_id, connector_id |-> connector_id,
     started_at |-> started_at, files_count |-> files_count,
     updated_at |-> None, completed_at |-> None,
     files_successful |-> None, files_failed |-> None, files_total |-> None,
     error_messages |-> None]

NoResponse == [kind |-> "none", statusCode |-> 0, message |-> "", count |-> 0]
\* count: transfers_checked, processed_files or files_found of the body.
Returned(code, message, n) ==
    [kind |-> "returned", statusCode |-> code, message |-> message, count |-> n]
\* An outer handler that answers 500 where the code's re-raises.  C9 must
\* tell it from the code's.
RaisedAs500(message) == Returned(500, message, 0)

\* The exception leaves the handler: the platform sees a failed invocation.
Raised(message) ==
    [kind |-> "raised", statusCode |-> 0, message |-> message, count |-> 0]

\* calls: the external services' operations called so far; transfers: the
\* path lists given to start_file_transfer; failed: the operation whose
\* failure the invocation saw last (what it logs), "none" when none did;
\* terminal_at_start: the records that were terminal when the pass began;
\* input: what the invocation was given from outside (the event of send, the
\* remote server's behaviour towards list_directory_files); opened, closed:
\* the SSH and SFTP sessions opened and closed; files: what
\* list_directory_files returned; attempt, queries, slept: the poll loop's
\* counter, the status queries it has made and the time it has slept.
Idle ==
    [handler |-> "none", pc |-> "idle", pending |-> <<>>, idx |-> 0,
     update_data |-> NoUpdate, transfers_checked |-> 0,
     calls |-> {}, transfers |-> <<>>, failed |-> "none",
     terminal_at_start |-> {}, response |-> NoResponse,
     input |-> None, opened |-> {}, closed |-> {}, files |-> None,
     attempt |-> 0, queries |-> 0, slept |-> 0]

Slots == DOMAIN inv

Done(handler, calls, transfers, failed, response) ==
    [Idle EXCEPT !.handler = handler, !.pc = "done", !.calls = calls,
                 !.transfers = transfers, !.failed = failed, !.response = response]

\* An environment in which every name has a value.  C10 must tell it from
\* the deployed one.
EnvironAlwaysSet(name) == TRUE

\* os.environ[name]: a KeyError when the variable is not set.
Environ(name) == name \in env

TerminalNow(t) == { b \in DOMAIN t : t[b].status # None /\ t[b].status[1] \in Terminal }

\* table.scan with a filter on #status: the matching keys, in key order.
RECURSIVE ScanFrom(_, _, _)
ScanFrom(t, statuses, b) ==
    IF b \notin DOMAIN t THEN <<>>
    ELSE IF t[b].status # None /\ t[b].status[1] \in statuses
         THEN <<b>> \o ScanFrom(t, statuses, b + 1)
         ELSE ScanFrom(t, statuses, b + 1)

\* A scan without the FilterExpression: every record is returned.  C2 must
\* tell it from the code's.
ScanAll(t, statuses) == ScanFrom(t, Terminal \cup Pending, 1)

\* A scan that filters on TRANSFER_STARTED alone.  C8 must tell it from the
\* code's.
ScanStartedOnly(t, statuses) == ScanFrom(t, statuses \ {"DISCOVERY_COMPLETED"}, 1)

Scan(t, statuses) == ScanFrom(t, statuses, 1)

Current(p) == inv[p].pending[inv[p].idx]

NextRecord(p) ==
    [inv EXCEPT ![p].pc = "loop", ![p].idx = @ + 1, ![p].update_data = NoUpdate]

\* ------------------------- retrieve-dynamic/event_listener.lambda_handler
\* Lines 15-37: the clients, the table name, the scan.
StartA(p) ==
    /\ function = "dynamic/event_listener"
    /\ inv[p].pc = "idle"
    /\ \/ /\ "DYNAMODB_TABLE" \notin env
          /\ inv' = [inv EXCEPT ![p] =
                 Done("status_checker", {}, <<>>, "none",
                      Returned(200, "DynamoDB not configured", 0))]
       \/ /\ "DYNAMODB_TABLE" \in env
          /\ inv' = [inv EXCEPT ![p] = [Idle EXCEPT
                 !.handler = "status_checker", !.pc = "loop", !.idx = 1,
                 !.calls = {"scan"}, !.terminal_at_start = TerminalNow(table),
                 !.pending = Scan(table, {"TRANSFER_STARTED", "DISCOVERY_COMPLETED"})]]
       \/ /\ "DYNAMODB_TABLE" \in env
          \* scan raises: the except of line 117 answers 500
          /\ inv' = [inv EXCEPT ![p] =
                 Done("status_checker", {"scan"}, <<>>, "scan", Returned(500, "error", 0))]
    /\ UNCHANGED <<function, env, table, now>>

InLoopA(p) ==
    /\ inv[p].handler = "status_checker"
    /\ inv[p].pc = "loop"
    /\ inv[p].idx <= Len(inv[p].pending)

\* A test that looks at transfer_id alone.  C20 must tell it from the
\* code's.
SkippedWithoutTransferId(transfer) == transfer.transfer_id = None

\* Line 44: if not transfer_id or not connector_id.
Skipped(transfer) == transfer.transfer_id = None \/ transfer.connector_id = None

\* Lines 40-46: a record without transfer_id or connector_id is skipped.
SkipA(p) ==
    /\ InLoopA(p)
    /\ Skipped(table[Current(p)])
    /\ inv' = NextRecord(p)
    /\ UNCHANGED <<function, env, table, now>>

\* Lines 48-80: the connector is asked for the transfer's results, which are
\* classified; update_data is built with the clock read at lines 75-76.
QueryA(p) ==
    /\ InLoopA(p)
    /\ ~Skipped(table[Current(p)])
    /\ \/ \* list_file_transfer_results raises: caught at line 105
          inv' = [NextRecord(p) EXCEPT ![p].calls = @ \cup {"list_file_transfer_results"},
                                       ![p].failed = "list_file_transfer_results"]
       \/ \E file_results \in ResultLists :
            /\ NewStatus(file_results) = "SKIP"
            /\ inv' = [NextRecord(p) EXCEPT ![p].calls = @ \cup {"list_file_transfer_results"}]
       \/ \E file_results \in ResultLists :
            /\ NewStatus(file_results) # "SKIP"
            /\ inv' = [inv EXCEPT ![p].pc = "update",
                                  ![p].update_data = UpdateDataA(file_results, now),
                                  ![p].calls = @ \cup {"list_file_transfer_results"}]
    /\ UNCHANGED <<function, env, table, now>>

\* An update step whose failure ends the pass with 500, as if line 101 were
\* outside the per-record try.  C7 must tell it from the code's.
UpdateAAbort(p) ==
    /\ inv[p].handler = "status_checker"
    /\ inv[p].pc = "update"
    /\ \/ /\ table' = [table EXCEPT ![Current(p)] = UpdateItem(@, inv[p].update_data)]
          /\ inv' = [NextRecord(p) EXCEPT ![p].calls = @ \cup {"update_item"}]
       \/ /\ UNCHANGED table
          /\ inv' = [inv EXCEPT ![p].pc = "done",
                                ![p].calls = @ \cup {"update_item"},
                                ![p].failed = "update_item",
                                ![p].response = Returned(500, "error", 0)]
    /\ UNCHANGED <<function, env, now>>

\* Lines 87-107: update_item on the record's key; a failure is caught at
\* line 105 and the loop goes on.
UpdateA(p) ==
    /\ inv[p].handler = "status_checker"
    /\ inv[p].pc = "update"
    /\ \/ /\ table' = [table EXCEPT ![Current(p)] = UpdateItem(@, inv[p].update_data)]
          /\ inv' = [NextRecord(p) EXCEPT ![p].calls = @ \cup {"update_item"}]
       \/ /\ UNCHANGED table
          /\ inv' = [NextRecord(p) EXCEPT ![p].calls = @ \cup {"update_item"},
                                          ![p].failed = "update_item"]
    /\ UNCHANGED <<function, env, now>>

\* Lines 109-115.
FinishA(p) ==
    /\ inv[p].handler = "status_checker"
    /\ inv[p].pc = "loop"
    /\ inv[p].idx > Len(inv[p].pending)
    /\ inv' = [inv EXCEPT ![p].pc = "done",
                 ![p].response = Returned(200, "Transfer status check completed",
                                          Len(inv[p].pending))]
    /\ UNCHANGED <<function, env, table, now>>

\* -------------------------- retrieve-static/event_listener.lambda_handler
\* Line 8 runs when the module is loaded: without DYNAMODB_TABLE the
\* function fails before the handler is entered.  Lines 13-15: an event of
\* source aws.transfer is only logged.
TransferEventB(p) ==
    /\ function = "static/event_listener"
    /\ inv[p].pc = "idle"
    /\ \/ /\ ~Environ("DYNAMODB_TABLE")
          /\ inv' = [inv EXCEPT ![p] =
                 Done("transfer_event", {}, <<>>, "environ", Raised("KeyError"))]
       \/ /\ Environ("DYNAMODB_TABLE")
          /\ \E message \in {"No transfer ID found", "Transfer event processed"} :
               inv' = [inv EXCEPT ![p] =
                   Done("transfer_event", {}, <<>>, "none", Returned(200, message, 0))]
    /\ UNCHANGED <<function, env, table, now>>

\* Lines 16-18 and 47-58: the scan of handle_status_check; its failure is
\* re-raised at line 111 and answered 500 at line 21.
StartB(p) ==
    /\ function = "static/event_listener"
    /\ inv[p].pc = "idle"
    /\ \/ /\ ~Environ("DYNAMODB_TABLE")
          /\ inv' = [inv EXCEPT ![p] =
                 Done("status_check", {}, <<>>, "environ", Raised("KeyError"))]
       \/ /\ Environ("DYNAMODB_TABLE")
          /\ inv' = [inv EXCEPT ![p] = [Idle EXCEPT
                 !.handler = "status_check", !.pc = "loop", !.idx = 1,
                 !.calls = {"scan"}, !.terminal_at_start = TerminalNow(table),
                 !.pending = Scan(table, {"TRANSFER_STARTED"})]]
       \/ /\ Environ("DYNAMODB_TABLE")
          /\ inv' = [inv EXCEPT ![p] =
                 Done("status_check", {"scan"}, <<>>, "scan", Returned(500, "error", 0))]
    /\ UNCHANGED <<function, env, table, now>>

InLoopB(p) ==
    /\ inv[p].handler = "status_check"
    /\ inv[p].pc = "loop"
    /\ inv[p].idx <= Len(inv[p].pending)

\* datetime.fromisoformat(item['started_at'].replace('Z', '+00:00')) raises
\* on a missing or ill-formed started_at.
Parses(started_at) == started_at # None /\ started_at[1].iso

\* A comparison that lets the threshold itself through (>=).  C15 must
\* tell it from the code's.
ExpiredAtThreshold(started_at, t) == t - started_at[1].t >= TimeThreshold

\* Lines 67-71: time_diff > 120.
Expired(started_at, t) == t - started_at[1].t > TimeThreshold

\* A check whose failure on started_at is passed over, as if lines 66-68
\* were in a per-record try.  C19 must tell it from the code's.
CheckBContinue(p) ==
    /\ InLoopB(p)
    /\ LET item == table[Current(p)] IN
       \/ /\ ~Parses(item.started_at)
          /\ inv' = [NextRecord(p) EXCEPT ![p].failed = "started_at"]
       \/ /\ Parses(item.started_at)
          /\ ~Expired(item.started_at, now)
          /\ inv' = NextRecord(p)
       \/ /\ Parses(item.started_at)
          /\ Expired(item.started_at, now)
          /\ inv' = [inv EXCEPT ![p].pc = "update",
                                ![p].update_data = UpdateDataB(item, now)]
    /\ UNCHANGED <<function, env, table, now>>

\* Lines 60-80: the elapsed time of the record against the threshold.
CheckB(p) ==
    /\ InLoopB(p)
    /\ LET item == table[Current(p)] IN
       \/ /\ ~Parses(item.started_at)
          /\ inv' = [inv EXCEPT ![p].pc = "done", ![p].failed = "started_at",
                                ![p].response = Returned(500, "error", 0)]
       \/ /\ Parses(item.started_at)
          /\ ~Expired(item.started_at, now)
          /\ inv' = NextRecord(p)
       \/ /\ Parses(item.started_at)
          /\ Expired(item.started_at, now)
          /\ inv' = [inv EXCEPT ![p].pc = "update",
                                ![p].update_data = UpdateDataB(item, now)]
    /\ UNCHANGED <<function, env, table, now>>

\* Lines 82-99: update_item; its failure ends the pass (lines 109-111, 19-24).
UpdateB(p) ==
    /\ inv[p].handler = "status_check"
    /\ inv[p].pc = "update"
    /\ \/ /\ table' = [table EXCEPT ![Current(p)] = UpdateItem(@, inv[p].update_data)]
          /\ inv' = [NextRecord(p) EXCEPT ![p].calls = @ \cup {"update_item"},
                                          ![p].transfers_checked = @ + 1]
       \/ /\ UNCHANGED table
          /\ inv' = [inv EXCEPT ![p].pc = "done", ![p].update_data = NoUpdate,
                                ![p].calls = @ \cup {"update_item"},
                                ![p].failed = "update_item",
                                ![p].response = Returned(500, "error", 0)]
    /\ UNCHANGED <<function, env, now>>

\* Lines 101-107.
FinishB(p) ==
    /\ inv[p].handler = "status_check"
    /\ inv[p].pc = "loop"
    /\ inv[p].idx > Len(inv[p].pending)
    /\ inv' = [inv EXCEPT ![p].pc = "done",
                 ![p].response = Returned(200, "Transfer status check completed",
                                          inv[p].transfers_checked)]
    /\ UNCHANGED <<function, env, table, now>>

\* The invocation is over; the platform may invoke the slot again.
Return(p) ==
    /\ inv[p].pc = "done"
    /\ inv' = [inv EXCEPT ![p] = Idle]
    /\ UNCHANGED <<function, env, table, now>>

Tick ==
    /\ now < TimeThreshold + 1 + MaxTicks
    /\ now' = now + 1
    /\ UNCHANGED <<function, env, table, inv>>

\* ------------------------------------------------------ retrieve/index.py
\* What the remote server does to list_directory_files: whether ssh.connect
\* succeeds, whether open_sftp succeeds, whether listdir answers, whether
\* the two closes of the finally clause return, and per entry what stat
\* says (a file, a directory, or an error).
Listings ==
    [connected : BOOLEAN, sftp_opened : BOOLEAN, listed : BOOLEAN,
     sftp_closed : BOOLEAN, ssh_closed : BOOLEAN,
     entries : SeqsUpTo({"file", "dir", "error"}, MaxEntries)]

RemotePath(directory_path, i) == <<directory_path, "/", ToString(i)>>

\* A lister that keeps only the entries stat reported as files: the
\* unstatable ones are dropped.  C11 must tell it from the code's.
RECURSIVE FilesFromStatted(_, _, _)
FilesFromStatted(directory_path, entries, i) ==
    IF i > Len(entries) THEN <<>>
    ELSE IF entries[i] # "file"
         THEN FilesFromStatted(directory_path, entries, i + 1)
         ELSE <<RemotePath(directory_path, i)>> \o FilesFromStatted(directory_path, entries, i + 1)

\* Lines 54-63: the entries of file_list that stat does not report as a
\* directory, in order.
RECURSIVE FilesFrom(_, _, _)
FilesFrom(directory_path, entries, i) ==
    IF i > Len(entries) THEN <<>>
    ELSE IF entries[i] = "dir"
         THEN FilesFrom(directory_path, entries, i + 1)
         ELSE <<RemotePath(directory_path, i)>> \o FilesFrom(directory_path, entries, i + 1)

\* A lister whose files are filled in even though listdir failed.  C13
\* must tell it from the code's.
ListDirectoryFilesDespiteFailure(directory_path, listing) ==
    IF ~listing.connected \/ ~listing.sftp_opened THEN <<>>
    ELSE FilesFrom(directory_path, listing.entries, 1)

\* list_directory_files, lines 23-78: the paths it returns.  A failure of
\* connect or open_sftp, and a close that raises in the finally clause, end
\* in the outer except (return []); a failure of listdir leaves files empty.
ListDirectoryFiles(directory_path, listing) ==
    IF ~listing.connected \/ ~listing.sftp_opened THEN <<>>
    ELSE IF ~listing.sftp_closed \/ ~listing.ssh_closed THEN <<>>
    ELSE IF ~listing.listed THEN <<>>
    ELSE FilesFrom(directory_path, listing.entries, 1)

\* The sessions list_directory_files has opened when it returns: the SSH
\* session of line 42/45 and the SFTP channel of line 48.
OpenedSessions(listing) ==
    IF ~listing.connected THEN {}
    ELSE IF ~listing.sftp_opened THEN {"ssh"}
    ELSE {"ssh", "sftp"}

\* The sessions it has closed: lines 71-72 are reached only when the SFTP
\* channel was opened, and ssh.close() only when sftp.close() returned.
ClosedSessions(listing) ==
    IF ~listing.connected \/ ~listing.sftp_opened THEN {}
    ELSE IF ~listing.sftp_closed THEN {}
    ELSE IF ~listing.ssh_closed THEN {"sftp"}
    ELSE {"sftp", "ssh"}

\* The listing went through: every call of list_directory_files returned.
ListingSucceeds(listing) ==
    /\ listing.connected /\ listing.sftp_opened /\ listing.listed
    /\ listing.sftp_closed /\ listing.ssh_closed

\* The slot after list_directory_files has returned.
Listed(slot, listing) ==
    [slot EXCEPT !.input = Some(listing),
                 !.opened = OpenedSessions(listing),
                 !.closed = ClosedSessions(listing),
                 !.files = Some(ListDirectoryFiles("/uploads", listing))]

\* A handler without the test for an empty list.  C17 must tell it from
\* the code's.
NoFilesNever(file_paths) == FALSE

\* `if not retrieve_file_paths` (retrieve, line 112) and `if not file_paths`
\* (retrieve-dynamic, line 115).
NoFiles(file_paths) == file_paths = <<>>

\* handler, lines 80-153.
Retrieve(p) ==
    /\ function = "retrieve/index"
    /\ inv[p].pc = "idle"
    /\ \/ /\ ~Environ("CONNECTOR_ID") \/ ~Environ("S3_BUCKET_NAME")
          /\ inv' = [inv EXCEPT ![p] =
                 Done("retrieve", {}, <<>>, "environ", Raised("KeyError"))]
       \/ /\ Environ("CONNECTOR_ID") /\ Environ("S3_BUCKET_NAME")
          /\ "WORKFLOW_TYPE=directory" \notin env
          /\ inv' = [inv EXCEPT ![p] =
                 Done("retrieve", {}, <<>>, "workflow", Raised("Invalid workflow configuration"))]
       \/ /\ Environ("CONNECTOR_ID") /\ Environ("S3_BUCKET_NAME")
          /\ "WORKFLOW_TYPE=directory" \in env
          /\ "SFTP_SECRET_ARN" \notin env \/ "SFTP_ENDPOINT" \notin env
          /\ inv' = [inv EXCEPT ![p] =
                 Done("retrieve", {}, <<>>, "environ",
                      Raised("SFTP_SECRET_ARN and SFTP_ENDPOINT are required"))]
       \/ /\ Environ("CONNECTOR_ID") /\ Environ("S3_BUCKET_NAME")
          /\ {"WORKFLOW_TYPE=directory", "SFTP_SECRET_ARN", "SFTP_ENDPOINT"} \subseteq env
          /\ \/ \* get_sftp_credentials raises
                inv' = [inv EXCEPT ![p] =
                    Done("retrieve", {"get_secret_value"}, <<>>, "get_secret_value",
                         Raised("error"))]
             \/ \E listing \in Listings :
                  LET retrieve_file_paths == ListDirectoryFiles("/uploads", listing)
                      calls == {"get_secret_value", "sftp"}
                      failed == IF ListingSucceeds(listing) THEN "none" ELSE "sftp"
                  IN  \/ /\ NoFiles(retrieve_file_paths)
                         /\ inv' = [inv EXCEPT ![p] = Listed(
                                Done("retrieve", calls, <<>>, failed,
                                     Returned(200, "No files found", 0)), listing)]
                      \/ /\ ~NoFiles(retrieve_file_paths)
                         /\ inv' = [inv EXCEPT ![p] = Listed(
                                Done("retrieve", calls \cup {"start_file_transfer"},
                                     <<retrieve_file_paths>>, failed,
                                     Returned(200, "File retrieval started successfully",
                                              Len(retrieve_file_paths))), listing)]
                      \/ /\ ~NoFiles(retrieve_file_paths)
                         \* start_file_transfer raises
                         /\ inv' = [inv EXCEPT ![p] = Listed(
                                Done("retrieve", calls \cup {"start_file_transfer"},
                                     <<retrieve_file_paths>>, "start_file_transfer",
                                     Raised("error")), listing)]
    /\ UNCHANGED <<function, env, table, now>>

\* ---------------------------------------------- retrieve-dynamic/index.py
\* The file paths of the listing file: its 'files' entries.
ListingFiles == { [i \in 1..n |-> RemotePath("/uploads", i)] : n \in 0..MaxEntries }

\* lambda_handler, lines 64-153.
RetrieveDynamic(p) ==
    /\ function = "dynamic/index"
    /\ inv[p].pc = "idle"
    /\ \/ /\ ~Environ("CONNECTOR_ID") \/ ~Environ("S3_BUCKET")
          /\ inv' = [inv EXCEPT ![p] =
                 Done("retrieve_dynamic", {}, <<>>, "environ", Raised("KeyError"))]
       \/ /\ Environ("CONNECTOR_ID") /\ Environ("S3_BUCKET")
          /\ \/ \* start_directory_listing raises
                inv' = [inv EXCEPT ![p] =
                    Done("retrieve_dynamic", {"start_directory_listing"}, <<>>,
                         "start_directory_listing", Raised("error"))]
             \/ \* list_objects_v2 raises
                inv' = [inv EXCEPT ![p] =
                    Done("retrieve_dynamic", {"start_directory_listing", "list_objects_v2"},
                         <<>>, "list_objects_v2", Raised("error"))]
             \/ \* no 'Contents': the listing file is not there yet
                inv' = [inv EXCEPT ![p] =
                    Done("retrieve_dynamic", {"start_directory_listing", "list_objects_v2"},
                         <<>>, "none", Returned(200, "Directory listing in progress", 0))]
             \/ \* get_object raises, or the listing file is no JSON
                inv' = [inv EXCEPT ![p] =
                    Done("retrieve_dynamic",
                         {"start_directory_listing", "list_objects_v2", "get_object"},
                         <<>>, "get_object", Raised("error"))]
             \/ \E file_paths \in ListingFiles :
                  LET calls == {"start_directory_listing", "list_objects_v2", "get_object"}
                  IN  \/ /\ NoFiles(file_paths)
                         /\ inv' = [inv EXCEPT ![p] = [
                                Done("retrieve_dynamic", calls, <<>>, "none",
                                     Returned(200, "No files found", 0))
                                EXCEPT !.input = Some(file_paths)]]
                      \/ /\ ~NoFiles(file_paths)
                         \* start_file_transfer raises
                         /\ inv' = [inv EXCEPT ![p] = [
                                Done("retrieve_dynamic", calls \cup {"start_file_transfer"},
                                     <<file_paths>>, "start_file_transfer", Raised("error"))
                                EXCEPT !.input = Some(file_paths)]]
                      \/ /\ ~NoFiles(file_paths)
                         \* delete_object succeeds, or fails and is only logged
                         /\ \E failed \in {"none", "delete_object"} :
                              inv' = [inv EXCEPT ![p] = [
                                Done("retrieve_dynamic",
                                     calls \cup {"start_file_transfer", "delete_object"},
                                     <<file_paths>>, failed,
                                     Returned(200, "Dynamic file retrieval started",
                                              Len(file_paths)))
                                EXCEPT !.input = Some(file_paths)]]
    /\ UNCHANGED <<function, env, table, now>>

\* ------------------------- retrieve-dynamic/index.py: list_directory_files
\* Lines 23 and 54.
max_attempts == 30
SleepSeconds == 2

\* The steps of Execution.Results: a LIST step whose Outputs hold FilePaths
\* (here one path), a step of another type, a LIST step whose Outputs hold
\* no FilePaths, and a LIST step whose Outputs are no JSON.
StepLists == SeqsUpTo({"list", "other", "nopaths", "malformed"}, MaxEntries)

\* What describe_execution answers: the status and, when COMPLETED, the steps.
Executions ==
    [Status : {"IN_PROGRESS", "FAILED", "EXCEPTION"}, Steps : {<<>>}]
        \cup [Status : {"COMPLETED"}, Steps : StepLists]

\* Lines 37-44: files.extend(step_outputs['FilePaths']) over the steps.
RECURSIVE FilePaths(_, _, _)
FilePaths(directory_path, steps, i) ==
    IF i > Len(steps) THEN <<>>
    ELSE IF steps[i] = "list"
         THEN <<RemotePath(directory_path, i)>> \o FilePaths(directory_path, steps, i + 1)
         ELSE FilePaths(directory_path, steps, i + 1)

\* json.loads(step['Outputs']) raises on some step.
Undecodable(steps) == \E i \in 1..Len(steps) : steps[i] = "malformed"

\* A loop that goes round once more (attempt <= max_attempts).  C14 must
\* tell it from the code's.
PollingOnceMore(attempt) == attempt <= max_attempts

\* Line 26: while attempt < max_attempts.
Polling(attempt) == attempt < max_attempts

\* The function has returned `files`.
ReturnedFiles(slot, files, failed) ==
    [slot EXCEPT !.pc = "done", !.files = Some(files), !.failed = failed]

\* Lines 11-24: start_directory_listing; its failure is caught at line 60.
StartListing(p) ==
    /\ function = "dynamic/list_directory_files"
    /\ inv[p].pc = "idle"
    /\ \/ inv' = [inv EXCEPT ![p] = [Idle EXCEPT
              !.handler = "list_directory_files", !.pc = "poll",
              !.calls = {"start_directory_listing"}]]
       \/ inv' = [inv EXCEPT ![p] = ReturnedFiles(
              [Idle EXCEPT !.handler = "list_directory_files",
                           !.calls = {"start_directory_listing"}],
              <<>>, "start_directory_listing")]
    /\ UNCHANGED <<function, env, table, now>>

\* Lines 26-55: one round of the loop, from describe_execution to the
\* return or to the sleep and the increment.
Describe(p) ==
    /\ inv[p].handler = "list_directory_files"
    /\ inv[p].pc = "poll"
    /\ Polling(inv[p].attempt)
    /\ LET asked == [inv[p] EXCEPT !.queries = @ + 1,
                                   !.calls = @ \cup {"describe_execution"}]
       IN  \/ \* describe_execution raises: caught at line 60
              inv' = [inv EXCEPT ![p] = ReturnedFiles(asked, <<>>, "describe_execution")]
           \/ \E execution \in Executions :
                LET answered == [asked EXCEPT !.input = Some(execution)] IN
                IF execution.Status = "COMPLETED"
                THEN IF Undecodable(execution.Steps)
                     THEN inv' = [inv EXCEPT ![p] = ReturnedFiles(answered, <<>>, "json.loads")]
                     ELSE inv' = [inv EXCEPT ![p] = ReturnedFiles(answered,
                                     FilePaths("/uploads", execution.Steps, 1), "none")]
                ELSE IF execution.Status \in {"FAILED", "EXCEPTION"}
                THEN inv' = [inv EXCEPT ![p] = ReturnedFiles(answered, <<>>, "none")]
                ELSE inv' = [inv EXCEPT ![p] = [asked EXCEPT
                                !.slept = @ + SleepSeconds, !.attempt = @ + 1]]
    /\ UNCHANGED <<function, env, table, now>>

\* Lines 57-58: the loop is left without a final status.
TimeOut(p) ==
    /\ inv[p].handler = "list_directory_files"
    /\ inv[p].pc = "poll"
    /\ ~Polling(inv[p].attempt)
    /\ inv' = [inv EXCEPT ![p] = ReturnedFiles(inv[p], <<>>, "none")]
    /\ UNCHANGED <<function, env, table, now>>

\* -------------------------------------------------------- send/index.py
\* The object-created events: with detail.bucket.name and detail.object.key,
\* or without them.
SendEvents ==
    [wellformed : BOOLEAN, bucket : {"b"}, key : {"f.txt", "k/f.txt"}]

\* A path without the bucket.  C16 must tell it from the code's.
SendPathOfKey(source_bucket, source_key) == <<"/", source_key>>

\* Line 13: f'/{source_bucket}/{source_key}'.
SendPath(source_bucket, source_key) == <<"/", source_bucket, "/", source_key>>

\* handler, lines 5-21: nothing is caught.
Send(p) ==
    /\ function = "send/index"
    /\ inv[p].pc = "idle"
    /\ \E event \in SendEvents :
         \/ /\ ~event.wellformed
            /\ inv' = [inv EXCEPT ![p] = Done("send", {}, <<>>, "event", Raised("KeyError"))]
         \/ /\ event.wellformed
            /\ ~Environ("CONNECTOR_ID")
            /\ inv' = [inv EXCEPT ![p] = Done("send", {}, <<>>, "environ", Raised("KeyError"))]
         \/ /\ event.wellformed
            /\ Environ("CONNECTOR_ID")
            /\ \/ inv' = [inv EXCEPT ![p] = [
                     Done("send", {"start_file_transfer"},
                          << <<SendPath(event.bucket, event.key)>> >>, "none",
                          Returned(200, "Transfer initiated", 0))
                     EXCEPT !.input = Some(event)]]
               \/ inv' = [inv EXCEPT ![p] = [
                     Done("send", {"start_file_transfer"},
                          << <<SendPath(event.bucket, event.key)>> >>, "start_file_transfer",
                          Raised("error"))
                     EXCEPT !.input = Some(event)]]
    /\ UNCHANGED <<function, env, table, now>>

\* ---------------------------------------------------------- specifications
\* The records a producer leaves in the dynamic example's table: with both
\* identifiers, without transfer_id, or without connector_id.
IdPairs ==
    { <<Some("t"), Some("c")>>, <<None, Some("c")>>, <<Some("t"), None>> }

ItemsA ==
    { Item(s, ids[1], ids[2], None, None) : s \in Pending, ids \in IdPairs }

StartedAts ==
    { None, Some([iso |-> FALSE, t |-> 0]) }
        \cup { Some([iso |-> TRUE, t |-> t]) : t \in 0..1 }

\* The records a producer leaves in the static example's table.
ItemsB ==
    { Item("TRANSFER_STARTED", None, None, s, n) : s \in StartedAts, n \in {None, Some(2)} }

Tables(keys) ==
    [function : {"dynamic/event_listener"}, env : {{"DYNAMODB_TABLE"}}, table : [keys -> ItemsA]]
        \cup
    [function : {"static/event_listener"}, env : {{"DYNAMODB_TABLE"}}, table : [keys -> ItemsB]]

WorkflowTypes == { {}, {"WORKFLOW_TYPE=directory"}, {"WORKFLOW_TYPE=static"} }

\* The deployments without a status store.
Untabled ==
    [function : {"dynamic/event_listener", "static/event_listener"}, env : {{}}, table : {<<>>}]
        \cup
    [function : {"retrieve/index"},
     env : { e \cup w : e \in SUBSET {"CONNECTOR_ID", "S3_BUCKET_NAME", "SFTP_ENDPOINT",
                                      "SFTP_SECRET_ARN"},
                        w \in WorkflowTypes },
     table : {<<>>}]
        \cup
    [function : {"dynamic/index"}, env : SUBSET {"CONNECTOR_ID", "S3_BUCKET"}, table : {<<>>}]
        \cup
    [function : {"send/index"}, env : SUBSET {"CONNECTOR_ID"}, table : {<<>>}]

Deployed(d) ==
    /\ function = d.function
    /\ env = d.env
    /\ table = d.table
    /\ now = TimeThreshold + 1

\* One invocation at a time: the passes run one after another, within one
\* reading of the clock.
Init ==
    /\ \E d \in Tables(BatchIds) \cup Untabled : Deployed(d)
    /\ inv = [p \in {1} |-> Idle]

\* The statuses checker of the dynamic example.
PassA ==
    \/ \E p \in Slots : StartA(p)
    \/ \E p \in Slots : SkipA(p)
    \/ \E p \in Slots : QueryA(p)
    \/ \E p \in Slots : UpdateA(p)
    \/ \E p \in Slots : FinishA(p)

\* The event listener of the static example.
PassB ==
    \/ \E p \in Slots : TransferEventB(p)
    \/ \E p \in Slots : StartB(p)
    \/ \E p \in Slots : CheckB(p)
    \/ \E p \in Slots : UpdateB(p)
    \/ \E p \in Slots : FinishB(p)

Next ==
    \/ PassA
    \/ PassB
    \/ \E p \in Slots : Retrieve(p)
    \/ \E p \in Slots : RetrieveDynamic(p)
    \/ \E p \in Slots : Send(p)
    \/ \E p \in Slots : Return(p)

Spec == Init /\ [][Next]_vars

\* Two invocations of a status checker overlap on one record while the
\* clock advances.
InitOverlap ==
    /\ \E d \in Tables({1}) : Deployed(d)
    /\ inv = [p \in {1, 2} |-> Idle]

NextOverlap ==
    \/ Tick
    \/ PassA
    \/ PassB
    \/ \E p \in Slots : Return(p)

SpecOverlap == InitOverlap /\ [][NextOverlap]_vars

\* Repeated Strategy A passes of the dynamic example's listener, one after
\* the other, on a schedule that never stops.
\* The keys of the two records the repeated passes work on.
LiveIds == {1, 2}

InitLive ==
    /\ \E d \in Tables(LiveIds) : d.function = "dynamic/event_listener" /\ Deployed(d)
    /\ inv = [p \in {1} |-> Idle]

NextLive ==
    \/ PassA
    \/ \E p \in Slots : Return(p)

\* The scan of line 27 succeeds.
ScanSucceeds == \E p \in Slots : StartA(p) /\ inv'[p].pc = "loop"

\* The connector reports results for record b that classify as final.
ReportsFinal(b) ==
    \E p \in Slots : QueryA(p) /\ Current(p) = b /\ inv'[p].pc = "update"

\* update_item of line 101 succeeds for record b.
Writes(b) ==
    \E p \in Slots : UpdateA(p) /\ Current(p) = b /\ inv'[p].failed = inv[p].failed

\* The schedule keeps firing and an invocation runs to its end (weak
\* fairness); a call that is tried again and again does not fail for ever,
\* and a transfer queried again and again is in the end reported with final
\* results (strong fairness).
Fairness ==
    /\ WF_vars(NextLive)
    /\ SF_vars(ScanSucceeds)
    /\ \A b \in LiveIds : SF_vars(ReportsFinal(b)) /\ SF_vars(Writes(b))

SpecLive == InitLive /\ [][NextLive]_vars /\ Fairness

\* Calls of the dynamic example's list_directory_files, one after another.
InitPoll ==
    /\ Deployed([function |-> "dynamic/list_directory_files", env |-> {}, table |-> <<>>])
    /\ inv = [p \in {1} |-> Idle]

NextPoll ==
    \/ \E p \in Slots : StartListing(p)
    \/ \E p \in Slots : Describe(p)
    \/ \E p \in Slots : TimeOut(p)
    \/ \E p \in Slots : Return(p)

SpecPoll == InitPoll /\ [][NextPoll]_vars

\* ------------------------------------------------------------------ claims
StatusCheckers == {"status_checker", "status_check"}
TransferHandlers == {"retrieve", "retrieve_dynamic", "send"}

StatusOf(b) == table[b].status[1]
Field(u, a) == u[a][1]

\* A pass of Strategy A that has classified the results of a record and is
\* about to call update_item.
UpdatingA(p) == inv[p].handler = "status_checker" /\ inv[p].pc = "update"
Updating(p) == inv[p].handler \in StatusCheckers /\ inv[p].pc = "update"

\* C1: Strategy A writes COMPLETED when successCount > 0 and failCount = 0,
\* PARTIALLY_FAILED when both are > 0, FAILED when only failCount > 0, and
\* writes nothing when both are 0; COMPLETED is written only when all the
\* results present are successful, also when the list holds entries that are
\* neither COMPLETED nor FAILED.
C1_Classification ==
    \A p \in Slots : UpdatingA(p) =>
        LET u == inv[p].update_data
            successCount == Field(u, "files_successful")
            failCount == Field(u, "files_failed")
        IN  /\ successCount + failCount > 0
            /\ (successCount > 0 /\ failCount = 0) => Field(u, "status") = "COMPLETED"
            /\ (successCount > 0 /\ failCount > 0) => Field(u, "status") = "PARTIALLY_FAILED"
            /\ (successCount = 0 /\ failCount > 0) => Field(u, "status") = "FAILED"
            /\ Field(u, "status") = "COMPLETED" => successCount = Field(u, "files_total")

\* C2: in passes that run one after another, a record that is terminal when
\* a pass starts is never passed to update_item by that pass.
C2_TerminalNeverUpdated ==
    \A p \in Slots : Updating(p) => Current(p) \notin inv[p].terminal_at_start

\* A later pass is about to update a record while another record, made
\* terminal by an earlier pass, was left out of its scan.
C2_Witness ==
    \E p \in Slots :
        /\ Updating(p)
        /\ inv[p].terminal_at_start # {}
        /\ \A b \in inv[p].terminal_at_start :
             \A i \in 1..Len(inv[p].pending) : inv[p].pending[i] # b

Rank(status) ==
    IF status = "DISCOVERY_COMPLETED" THEN 0
    ELSE IF status = "TRANSFER_STARTED" THEN 1
    ELSE 2

\* C3: under every interleaving, once a record is terminal no later
\* update_item changes or rewrites it, and a status never moves backwards
\* in DISCOVERY_COMPLETED -> TRANSFER_STARTED -> terminal.
C3_Monotonic ==
    [][\A b \in DOMAIN table :
          /\ StatusOf(b) \in Terminal => table'[b] = table[b]
          /\ Rank(table'[b].status[1]) >= Rank(StatusOf(b))]_vars

\* C4: two overlapping Strategy A passes that update the same record leave
\* the same final status and counts in every interleaving: a written
\* terminal value is not replaced by a different one, also when the
\* connector's result list grows between the two queries.
C4_Convergence ==
    [][\A b \in DOMAIN table :
          (function = "dynamic/event_listener" /\ StatusOf(b) \in Terminal) =>
              /\ table'[b].status = table[b].status
              /\ table'[b].files_successful = table[b].files_successful
              /\ table'[b].files_failed = table[b].files_failed
              /\ table'[b].files_total = table[b].files_total]_vars

\* The attributes a classification update decides, apart from its timestamps.
ClassificationAttributes ==
    {"status", "files_successful", "files_failed", "files_total", "error_messages"}
Timestamps == {"updated_at", "completed_at"}

\* The record already shows what update u assigns: u was applied to it.
SameClassification(item, u) ==
    \A a \in ClassificationAttributes : u[a] # None => item[a] = u[a]

\* The step is the update_item call of the pass in slot p.
CallsUpdateItem(p) == Updating(p) /\ inv'[p].pc # "update"

\* C5 as claimed: applying the same classification update twice leaves every
\* field of the record, completed_at and updated_at included, as it was
\* after the first application.
C5_Original ==
    [][\A p \in Slots :
          (CallsUpdateItem(p) /\ SameClassification(table[Current(p)], inv[p].update_data))
              => table'[Current(p)] = table[Current(p)]]_vars

\* C5 as amended: the second application leaves every field but the two
\* timestamps as it was; the timestamps take the clock of the second
\* application (or stay, when update_item fails).
C5_Idempotent ==
    [][\A p \in Slots :
          (CallsUpdateItem(p) /\ SameClassification(table[Current(p)], inv[p].update_data))
              => LET b == Current(p) IN
                 /\ \A a \in (DOMAIN table[b]) \ Timestamps : table'[b][a] = table[b][a]
                 /\ \A a \in Timestamps :
                      table'[b][a] \in {table[b][a], inv[p].update_data[a]}]_vars

\* A pass is about to apply, at a later clock reading, the update that an
\* overlapping pass has already applied to the record.
C5_Witness ==
    \E p \in Slots :
        /\ Updating(p)
        /\ SameClassification(table[Current(p)], inv[p].update_data)
        /\ table[Current(p)].updated_at # inv[p].update_data.updated_at

\* C6: in a Strategy A pass no update is prepared from a query that returned
\* zero results, a step that is not the update_item call leaves every record
\* unchanged, and the update_item call changes only the record that was
\* queried, by an update computed from that query's results alone.
C6_Frame ==
    [][\A p \in Slots : inv[p].handler = "status_checker" =>
          /\ inv[p].pc = "update" => Field(inv[p].update_data, "files_total") > 0
          /\ inv[p].pc # "update" => table' = table
          /\ inv[p].pc = "update" =>
                \A b \in DOMAIN table :
                    IF b = Current(p)
                    THEN table'[b] \in {table[b], UpdateItem(table[b], inv[p].update_data)}
                    ELSE table'[b] = table[b]
          /\ (inv[p].pc = "loop" /\ inv'[p].pc = "update") =>
                /\ inv'[p].idx = inv[p].idx
                /\ inv'[p].pending = inv[p].pending
                /\ \E file_results \in ResultLists :
                     /\ NewStatus(file_results) # "SKIP"
                     /\ inv'[p].update_data = UpdateDataA(file_results, now)]_vars

HasIds(b) == table[b].transfer_id # None /\ table[b].connector_id # None

\* A pass is over in which one record became PARTIALLY_FAILED with 1
\* success and 1 failure of 2 files, and another scanned record, whose query
\* gave nothing final, is as it was.
C6_Witness ==
    \E p \in Slots : \E b, c \in DOMAIN table :
        /\ inv[p].handler = "status_checker" /\ inv[p].pc = "done"
        /\ inv[p].response = Returned(200, "Transfer status check completed", Len(inv[p].pending))
        /\ inv[p].failed = "none"
        /\ inv[p].terminal_at_start = {}
        /\ StatusOf(b) = "PARTIALLY_FAILED"
        /\ table[b].files_successful = Some(1) /\ table[b].files_failed = Some(1)
        /\ table[b].files_total = Some(2)
        /\ HasIds(c) /\ StatusOf(c) \in Pending /\ table[c].files_total = None

\* C7: a per-record failure of a Strategy A pass (the connector query or
\* update_item raising) does not abort the pass: once the scan has
\* succeeded the handler ends only after the last scanned record, with
\* statusCode 200 and transfers_checked the number of scanned records.
C7_Isolation ==
    \A p \in Slots :
        (inv[p].handler = "status_checker" /\ inv[p].pc = "done" /\ inv[p].idx > 0) =>
            /\ inv[p].idx = Len(inv[p].pending) + 1
            /\ inv[p].response =
                 Returned(200, "Transfer status check completed", Len(inv[p].pending))

\* A pass is over, with 200, in which the first scanned record failed and
\* the second was updated.
C7_Witness ==
    \E p \in Slots :
        /\ inv[p].handler = "status_checker" /\ inv[p].pc = "done"
        /\ inv[p].failed \in {"list_file_transfer_results", "update_item"}
        /\ inv[p].response.statusCode = 200
        /\ Len(inv[p].pending) >= 2
        /\ HasIds(inv[p].pending[1]) /\ StatusOf(inv[p].pending[1]) \in Pending
        /\ StatusOf(inv[p].pending[2]) \in Terminal
        /\ inv[p].terminal_at_start = {}

Unexpected(p) == inv[p].failed \notin {"none", "environ", "workflow"}

\* C9 as claimed: on an unexpected error the pure-transfer handlers re-raise
\* and return no response, and the status-check handlers return a response
\* with statusCode 200.
C9_Original ==
    \A p \in Slots : (inv[p].pc = "done" /\ Unexpected(p)) =>
        /\ inv[p].handler \in TransferHandlers => inv[p].response.kind = "raised"
        /\ inv[p].handler \in StatusCheckers =>
              (inv[p].response.kind = "returned" /\ inv[p].response.statusCode = 200)

\* C9 as amended: the pure-transfer handlers re-raise, except that a failure
\* inside list_directory_files or of the clean-up delete_object is only
\* logged and 200 is returned; they never answer 500.  The status-check
\* handlers never re-raise: a failed scan, and in the static listener any
\* error of the pass, is answered 500; a per-record error of the dynamic
\* pass is logged and the pass answers 200.
C9_ResponseContract ==
    \A p \in Slots : inv[p].pc = "done" =>
        /\ inv[p].handler \in TransferHandlers =>
              /\ inv[p].response.kind = "returned" => inv[p].response.statusCode = 200
              /\ Unexpected(p) =>
                    IF inv[p].failed \in {"sftp", "delete_object"}
                    THEN inv[p].response.kind = "returned"
                    ELSE inv[p].response.kind = "raised"
        /\ (inv[p].handler \in StatusCheckers /\ Unexpected(p)) =>
              /\ inv[p].response.kind = "returned"
              /\ inv[p].response.statusCode =
                    IF inv[p].handler = "status_checker" /\ inv[p].failed # "scan"
                    THEN 200 ELSE 500

\* The scan of a status checker has failed and the handler has answered 500.
C9_Witness ==
    \E p \in Slots :
        /\ inv[p].handler \in StatusCheckers /\ inv[p].pc = "done"
        /\ inv[p].failed = "scan"
        /\ inv[p].response = Returned(500, "error", 0)

\* The environment values the deployed function cannot do without.
Required ==
    IF function \in {"dynamic/event_listener", "static/event_listener"}
    THEN {"DYNAMODB_TABLE"}
    ELSE IF function = "retrieve/index"
    THEN {"CONNECTOR_ID", "S3_BUCKET_NAME"}
            \cup (IF "WORKFLOW_TYPE=directory" \in env
                  THEN {"SFTP_SECRET_ARN", "SFTP_ENDPOINT"} ELSE {})
    ELSE IF function = "dynamic/index"
    THEN {"CONNECTOR_ID", "S3_BUCKET"}
    ELSE {"CONNECTOR_ID"}

ConfigMissing == ~(Required \subseteq env)

FailsBeforeAnyCall(p) ==
    /\ inv[p].pc \in {"idle", "done"}
    /\ inv[p].pc = "done" => (inv[p].response.kind = "raised" /\ inv[p].calls = {})

\* C10 as claimed: in every handler a missing required environment value
\* makes the invocation fail with a propagated error before any external
\* service call, and no success response is returned.
C10_Original ==
    \A p \in Slots : ConfigMissing => FailsBeforeAnyCall(p)

\* C10 as amended: that holds of every handler but the dynamic example's
\* event listener, which without DYNAMODB_TABLE makes no external call and
\* returns statusCode 200 with the body 'DynamoDB not configured'.
C10_ConfigFatal ==
    \A p \in Slots : ConfigMissing =>
        IF function = "dynamic/event_listener"
        THEN /\ inv[p].pc \in {"idle", "done"}
             /\ inv[p].pc = "done" =>
                   /\ inv[p].response = Returned(200, "DynamoDB not configured", 0)
                   /\ inv[p].calls = {}
        ELSE FailsBeforeAnyCall(p)

\* The retrieve handler, in directory mode without the secret identifier,
\* has raised.
C10_Witness ==
    \E p \in Slots :
        /\ function = "retrieve/index"
        /\ {"CONNECTOR_ID", "S3_BUCKET_NAME", "WORKFLOW_TYPE=directory"} \subseteq env
        /\ "SFTP_SECRET_ARN" \notin env
        /\ inv[p].pc = "done" /\ inv[p].response.kind = "raised" /\ inv[p].calls = {}

\* An invocation of the retrieve handler that has called list_directory_files.
HasListed(p) == inv[p].handler = "retrieve" /\ inv[p].pc = "done" /\ inv[p].input # None

\* The positions of the listing whose stat did not report a directory.
Kept(entries) == { i \in 1..Len(entries) : entries[i] # "dir" }

\* C11: when the listing goes through, list_directory_files returns, in
\* listing order, exactly the entries whose stat reported a non-directory
\* and the entries whose stat failed: no directory is returned and no
\* unstatable entry is dropped.
C11_ListerResult ==
    \A p \in Slots : (HasListed(p) /\ ListingSucceeds(inv[p].input[1])) =>
        LET entries == inv[p].input[1].entries
            files == inv[p].files[1]
        IN  /\ Len(files) = Cardinality(Kept(entries))
            /\ \A i \in Kept(entries) :
                 files[Cardinality({ k \in Kept(entries) : k <= i })] = RemotePath("/uploads", i)

\* A listing of a subdirectory and an unstatable entry has given exactly
\* the path of the unstatable entry.
C11_Witness ==
    \E p \in Slots :
        /\ HasListed(p) /\ ListingSucceeds(inv[p].input[1])
        /\ inv[p].input[1].entries = <<"dir", "error">>
        /\ inv[p].files = Some(<<RemotePath("/uploads", 2)>>)
        /\ inv[p].transfers = <<inv[p].files[1]>>

\* C12: when list_directory_files returns, every session it opened has been
\* closed.
C12_SessionsClosed ==
    \A p \in Slots : HasListed(p) => inv[p].opened \subseteq inv[p].closed

\* C13: when connect, open_sftp or listdir fails, list_directory_files
\* returns an empty sequence, and the handler returns statusCode 200 with
\* processed_files 0 without calling start_file_transfer.
C13_ListingFailure ==
    \A p \in Slots :
        (HasListed(p) /\ ~(/\ inv[p].input[1].connected
                           /\ inv[p].input[1].sftp_opened
                           /\ inv[p].input[1].listed)) =>
            /\ inv[p].files = Some(<<>>)
            /\ inv[p].response = Returned(200, "No files found", 0)
            /\ "start_file_transfer" \notin inv[p].calls
            /\ inv[p].transfers = <<>>

\* listdir has failed on a directory that holds a file: nothing is
\* returned and the handler has answered 200.
C13_Witness ==
    \E p \in Slots :
        /\ HasListed(p)
        /\ inv[p].input[1].connected /\ inv[p].input[1].sftp_opened
        /\ ~inv[p].input[1].listed
        /\ inv[p].input[1].sftp_closed /\ inv[p].input[1].ssh_closed
        /\ inv[p].input[1].entries = <<"file">>
        /\ inv[p].files = Some(<<>>)
        /\ inv[p].response.statusCode = 200

\* A call of the dynamic example's list_directory_files.
Lists(p) == inv[p].handler = "list_directory_files"

\* The positions of the steps that carry file paths.
Listing(steps) == { i \in 1..Len(steps) : steps[i] = "list" }

\* C14: the poll loop makes at most 30 status queries and sleeps 2 units
\* after each query that gave no final status; the function always returns
\* a list: the collected file paths at the first COMPLETED status, the
\* empty list at the first FAILED or EXCEPTION status, and the empty list
\* after the 30th status that is not final.
C14_BoundedPolling ==
    \A p \in Slots : Lists(p) =>
        /\ inv[p].queries <= max_attempts
        /\ inv[p].attempt <= inv[p].queries
        /\ inv[p].slept = SleepSeconds * inv[p].attempt
        /\ inv[p].pc = "poll" => inv[p].queries = inv[p].attempt
        /\ inv[p].pc = "done" =>
             /\ inv[p].files # None
             /\ inv[p].queries - 1 <= inv[p].attempt
             /\ inv[p].input = None => inv[p].files = Some(<<>>)
             /\ inv[p].input # None =>
                  LET execution == inv[p].input[1]
                      files == inv[p].files[1]
                  IN  /\ execution.Status # "IN_PROGRESS"
                      /\ inv[p].attempt = inv[p].queries - 1
                      /\ execution.Status \in {"FAILED", "EXCEPTION"} => files = <<>>
                      /\ (execution.Status = "COMPLETED" /\ ~Undecodable(execution.Steps)) =>
                           /\ Len(files) = Cardinality(Listing(execution.Steps))
                           /\ \A i \in Listing(execution.Steps) :
                                files[Cardinality({ k \in Listing(execution.Steps) : k <= i })]
                                    = RemotePath("/uploads", i)

\* The loop has been left after 30 queries without a final status, and the
\* empty list returned.
C14_Witness ==
    \E p \in Slots :
        /\ Lists(p) /\ inv[p].pc = "done"
        /\ inv[p].queries = max_attempts /\ inv[p].attempt = max_attempts
        /\ inv[p].slept = SleepSeconds * max_attempts
        /\ inv[p].input = None /\ inv[p].failed = "none"
        /\ inv[p].files = Some(<<>>)

\* The seconds since the record's started_at.
Elapsed(b) == now - table[b].started_at[1].t

\* C15: a Strategy B pass prepares an update for a scanned record exactly
\* when more than 120 seconds have passed since its started_at; the update
\* writes status COMPLETED, files_successful = the recorded files_count (0
\* when absent) and files_failed = 0, and touches no other record; a record
\* with 120 seconds or less is left as it is; and the pass that ends with
\* 200 reports as transfers_checked the number of records it has updated.
C15_StrategyB ==
    [][\A p \in Slots : inv[p].handler = "status_check" =>
          /\ (InLoopB(p) /\ Parses(table[Current(p)].started_at)) =>
                /\ inv'[p].pc = "update" <=> Elapsed(Current(p)) > 120
                /\ inv'[p].pc # "update" => inv'[p].idx = inv[p].idx + 1
          /\ inv[p].pc # "update" => table' = table
          /\ (inv[p].pc = "update" /\ table' # table) =>
                LET b == Current(p) IN
                /\ Elapsed(b) > 120
                /\ \A c \in DOMAIN table : c # b => table'[c] = table[c]
                /\ table'[b].status = Some("COMPLETED")
                /\ table'[b].files_successful =
                     (IF table[b].files_count = None THEN Some(0) ELSE table[b].files_count)
                /\ table'[b].files_failed = Some(0)
                /\ inv'[p].transfers_checked = inv[p].transfers_checked + 1
          /\ (inv'[p].pc = "done" /\ inv'[p].response.statusCode = 200) =>
                /\ inv'[p].response.count =
                     Cardinality({ b \in DOMAIN table : StatusOf(b) = "COMPLETED" }
                                    \ inv[p].terminal_at_start)
                /\ \A i \in 1..Len(inv[p].pending) :
                     StatusOf(inv[p].pending[i]) = "COMPLETED"
                        <=> Elapsed(inv[p].pending[i]) > 120]_vars

\* A pass has ended with transfers_checked 1: a record started 121 seconds
\* ago is COMPLETED with files_successful 2, its files_count, and a record
\* started 120 seconds ago is as it was.
C15_Witness ==
    \E p \in Slots : \E b, c \in DOMAIN table :
        /\ inv[p].handler = "status_check" /\ inv[p].pc = "done"
        /\ inv[p].response = Returned(200, "Transfer status check completed", 1)
        /\ inv[p].terminal_at_start = {}
        /\ Parses(table[b].started_at) /\ Parses(table[c].started_at)
        /\ Elapsed(b) = 121 /\ StatusOf(b) = "COMPLETED"
        /\ table[b].files_count = Some(2) /\ table[b].files_successful = Some(2)
        /\ table[b].files_failed = Some(0)
        /\ Elapsed(c) = 120 /\ StatusOf(c) = "TRANSFER_STARTED"
        /\ table[c].files_successful = None

\* An invocation of the send handler that has reached start_file_transfer.
HasSent(p) == inv[p].handler = "send" /\ inv[p].pc = "done" /\ inv[p].input # None

\* C16: for an event with bucket name b and object key k the send handler
\* calls start_file_transfer once, with the single path '/' b '/' k and the
\* connector of its environment; it returns 200 when the call succeeds and
\* raises when the call fails.
C16_SendTrigger ==
    \A p \in Slots :
        /\ HasSent(p) =>
             /\ "CONNECTOR_ID" \in env
             /\ inv[p].calls = {"start_file_transfer"}
             /\ inv[p].transfers =
                  << << <<"/", inv[p].input[1].bucket, "/", inv[p].input[1].key>> >> >>
             /\ inv[p].failed \in {"none", "start_file_transfer"}
             /\ inv[p].failed = "none" =>
                  inv[p].response = Returned(200, "Transfer initiated", 0)
             /\ inv[p].failed = "start_file_transfer" => inv[p].response.kind = "raised"
        /\ (inv[p].handler = "send" /\ inv[p].pc = "done" /\ inv[p].input = None) =>
             (inv[p].transfers = <<>> /\ inv[p].response.kind = "raised")

\* The event with bucket b and key k/f.txt has started the transfer of
\* /b/k/f.txt and the handler has answered 200.
C16_Witness ==
    \E p \in Slots :
        /\ HasSent(p)
        /\ inv[p].input[1].bucket = "b" /\ inv[p].input[1].key = "k/f.txt"
        /\ inv[p].transfers = << << <<"/", "b", "/", "k/f.txt">> >> >>
        /\ inv[p].response.statusCode = 200

\* C17: an invocation of a retrieve handler calls start_file_transfer at
\* most once, and only with a list of paths that is not empty; when the
\* discovery gives no path, or the workflow type of the retrieve handler
\* is not 'directory', start_file_transfer is not called.
C17_TransferPrecondition ==
    \A p \in Slots : inv[p].handler \in {"retrieve", "retrieve_dynamic"} =>
        /\ Len(inv[p].transfers) <= 1
        /\ \A i \in 1..Len(inv[p].transfers) : Len(inv[p].transfers[i]) > 0
        /\ "start_file_transfer" \in inv[p].calls <=> Len(inv[p].transfers) = 1
        /\ (inv[p].handler = "retrieve" /\ "WORKFLOW_TYPE=directory" \notin env) =>
             inv[p].transfers = <<>>
        /\ (inv[p].handler = "retrieve" /\ inv[p].files = Some(<<>>)) =>
             inv[p].transfers = <<>>
        /\ (inv[p].handler = "retrieve" /\ inv[p].transfers # <<>>) =>
             inv[p].transfers = <<inv[p].files[1]>>
        /\ (inv[p].handler = "retrieve_dynamic" /\ inv[p].input = Some(<<>>)) =>
             inv[p].transfers = <<>>
        /\ (inv[p].handler = "retrieve_dynamic" /\ inv[p].transfers # <<>>) =>
             inv[p].transfers = <<inv[p].input[1]>>

\* The listing file of the dynamic retrieve has no paths, and the handler
\* has answered 200 without starting a transfer.
C17_Witness ==
    \E p \in Slots :
        /\ inv[p].handler = "retrieve_dynamic" /\ inv[p].pc = "done"
        /\ inv[p].input = Some(<<>>)
        /\ "get_object" \in inv[p].calls
        /\ "start_file_transfer" \notin inv[p].calls
        /\ inv[p].response = Returned(200, "No files found", 0)

\* C18: every record of the dynamic example's table that holds a terminal
\* status holds counts with files_successful + files_failed <= files_total,
\* counts that agree with the status, and error_messages exactly when
\* files_failed > 0, one message per failed file.
C18_RecordConsistency ==
    \A b \in DOMAIN table :
        (function = "dynamic/event_listener" /\ StatusOf(b) \in Terminal) =>
            LET successCount == Field(table[b], "files_successful")
                failCount == Field(table[b], "files_failed")
            IN  /\ successCount + failCount <= Field(table[b], "files_total")
                /\ StatusOf(b) = "COMPLETED" => (failCount = 0 /\ successCount > 0)
                /\ StatusOf(b) = "FAILED" => (successCount = 0 /\ failCount > 0)
                /\ StatusOf(b) = "PARTIALLY_FAILED" => (successCount > 0 /\ failCount > 0)
                /\ table[b].error_messages # None <=> failCount > 0
                /\ table[b].error_messages # None =>
                     Len(table[b].error_messages[1]) = failCount

\* C19: when a record of a Strategy B pass raises (started_at missing or
\* ill-formed, or update_item failing) the pass ends at that record with
\* statusCode 500 and the error text: that record and the records after it
\* in scan order are not updated, and the records before it keep what the
\* pass has done to them.
C19_NoIsolation ==
    \A p \in Slots :
        (/\ inv[p].handler = "status_check" /\ inv[p].pc = "done"
         /\ inv[p].failed \in {"started_at", "update_item"}) =>
            /\ inv[p].response = Returned(500, "error", 0)
            /\ inv[p].idx \in 1..Len(inv[p].pending)
            /\ \A i \in inv[p].idx..Len(inv[p].pending) :
                 /\ StatusOf(inv[p].pending[i]) = "TRANSFER_STARTED"
                 /\ table[inv[p].pending[i]].files_successful = None
            /\ \A i \in 1..(inv[p].idx - 1) :
                 StatusOf(inv[p].pending[i]) = "COMPLETED"
                    <=> Elapsed(inv[p].pending[i]) > 120
            /\ inv[p].transfers_checked =
                 Cardinality({ i \in 1..(inv[p].idx - 1) :
                                 StatusOf(inv[p].pending[i]) = "COMPLETED" })

\* A pass has ended with 500 at a first record without started_at, and the
\* record after it, started 121 seconds ago, has not been updated.
C19_Witness ==
    \E p \in Slots :
        /\ inv[p].handler = "status_check" /\ inv[p].pc = "done"
        /\ inv[p].failed = "started_at"
        /\ inv[p].response.statusCode = 500
        /\ inv[p].idx = 1 /\ Len(inv[p].pending) >= 2
        /\ table[inv[p].pending[1]].started_at = None
        /\ Parses(table[inv[p].pending[2]].started_at)
        /\ Elapsed(inv[p].pending[2]) = 121
        /\ StatusOf(inv[p].pending[2]) = "TRANSFER_STARTED"

\* C20: a Strategy A pass passes over a scanned record without transfer_id
\* or connector_id: it does not query the connector for it, no step of any
\* pass changes such a record, and the pass that ends after the loop
\* reports as transfers_checked the number of scanned records.
C20_SkipRule ==
    [][\A p \in Slots : inv[p].handler = "status_checker" =>
          /\ (InLoopA(p) /\ ~HasIds(Current(p)) /\ inv'[p] # inv[p]) =>
                /\ inv'[p] = [inv[p] EXCEPT !.idx = inv[p].idx + 1]
                /\ table' = table
          /\ \A b \in DOMAIN table : ~HasIds(b) => table'[b] = table[b]
          /\ (inv[p].pc = "loop" /\ inv'[p].pc = "done") =>
                inv'[p].response =
                    Returned(200, "Transfer status check completed", Len(inv[p].pending))]_vars

\* A pass has ended with transfers_checked 2 after a record without
\* connector_id, passed over and left pending, and a record it has updated.
C20_Witness ==
    \E p \in Slots :
        /\ inv[p].handler = "status_checker" /\ inv[p].pc = "done"
        /\ inv[p].response = Returned(200, "Transfer status check completed", 2)
        /\ Len(inv[p].pending) = 2
        /\ table[inv[p].pending[1]].connector_id = None
        /\ table[inv[p].pending[1]].transfer_id # None
        /\ StatusOf(inv[p].pending[1]) \in Pending
        /\ StatusOf(inv[p].pending[2]) \in Terminal
        /\ inv[p].calls = {"scan", "list_file_transfer_results", "update_item"}
====
